---- MODULE Spec2Model ----
(***************************************************************************)
(* A model of the patent extraction tool: the claims parser                *)
(* (extract_claims of patent_extract.py) and the batch driver              *)
(* (extract_patents_from_csv of batch_patent.py).                          *)
(*                                                                         *)
(* Spec      : extract_claims applied to a bounded family of claims        *)
(*             sections.                                                   *)
(* SpecBatch : the batch loop over a bounded list of CSV rows, run up to   *)
(*             MaxRuns times over the same list.                           *)
(***************************************************************************)
EXTENDS Integers, Sequences, FiniteSets, TLC

\* ------------------------------------------------------------------ bounds
\* Elements (claim blocks, list items, <claim> tags, text fragments) per section.
MaxElems == 2
\* Claim numbers and referenced numbers range over 0..MaxNum.
MaxNum == 2

Nums == 0..MaxNum
PosNums == 1..MaxNum

\* ------------------------------------------------------- values and strings
\* Python's None / an int: the empty tuple or a one-element tuple.
None == <<>>
Some(n) == <<n>>
IsSet(o) == Len(o) = 1
Val(o) == o[1]
\* Python truthiness of an Optional[int]: `not dependent_on` holds for None and 0.
Falsy(o) == o = None \/ o = Some(0)

\* An attribute value (a string): '' (also: attribute absent), the decimal
\* numeral of n, or a string int() rejects.
NoStr == <<>>
Numeral(n) == <<n>>
Junk == <<0, 0>>

\* int(s): Some(n) for a numeral, None where Python raises ValueError.
ParseInt(s) == IF Len(s) = 1 THEN Some(s[1]) ELSE None

\* An element id. form "" is the missing id; "claim-" is claim-<n>, "CLM-" is
\* CLM-<0..0n>, "en-cl" is en-cl<n zero-padded to four digits>, "bare" is the
\* numeral <n> alone, "x" is an id with no claim number in it (x<n>... differ by n).
NoId == [form |-> "", n |-> 0]
MkId(f, n) == [form |-> f, n |-> n]

\* claim_num_pattern.search(id): the first non-None group, as a string.
ClaimNumPattern(id) ==
    IF id.form \in {"claim-", "CLM-", "en-cl"} THEN Numeral(id.n) ELSE NoStr

\* str(claim_num), as an id value (processed_claims holds ids and str(number)s).
StrOfNum(n) == MkId("bare", n)

\* A text: an optional leading numeral "<lead>." , whether anything follows
\* it, and the numbers of the dependency phrases ("of claim N", ...) in order.
MkText(lead, body, phrases) == [lead |-> lead, body |-> body, phrases |-> phrases]
EmptyText == MkText(None, FALSE, <<>>)
NonEmpty(t) == IsSet(t.lead) \/ t.body

\* The removal of the "<number>. " / "<number>." / "<number> " prefix.
StripPrefix(t, n) ==
    IF t.lead = Some(n) THEN [t EXCEPT !.lead = None] ELSE t

\* claim_pattern (r'^\s*(\d+)[\.\)]') on a list item: the text after the match.
StripLead(t) == [t EXCEPT !.lead = None]

\* dependency_pattern.search(text): the number of the first phrase.
FirstPhrase(t) == IF t.phrases = <<>> THEN None ELSE Some(t.phrases[1])

\* The textual dependency check: the first phrase, accepted when smaller.
TextDependencyAnyPhrase(t, claim_num, dep) ==
    LET hits == {i \in 1..Len(t.phrases) : t.phrases[i] < claim_num}
    IN IF hits = {} THEN dep
       ELSE Some(t.phrases[CHOOSE i \in hits : \A j \in hits : i <= j])
TextDependency(t, claim_num, dep) ==
    LET p == FirstPhrase(t)
    IN IF IsSet(p) /\ Val(p) < claim_num THEN p ELSE dep

\* A claim, as PatentClaim(number, text, dependent_on).
PatentClaim(n, t, d) == [number |-> n, text |-> t, dependent_on |-> d]

\* ------------------------------------------------------------------- state
VARIABLES
    section,        \* the claims section: its elements in document order
    claims,         \* the list extract_claims returned
    raw,            \* the claims list just before the final sort
    method,         \* which method produced the claims (0: none)
    recovered,      \* whether the claim-1 recovery appended a claim
    phase,          \* "input" before the call, "done" after it
    rows,           \* batch: the URL column of the CSV, after the limit
    output_format,  \* batch: the output format requested
    timeout,        \* batch: the timeout parameter of the call
    idx,            \* batch: the row the loop is at (1-based)
    pc,             \* batch: "loop", "fetching", "done", "raised"
    patents,        \* batch: the list being returned
    success_count,
    error_count,
    log,            \* batch: the ERROR lines written (by URL)
    summary,        \* batch: the summaries written in this run
    saved,          \* batch: the output files that exist (by patent number)
    fetches,        \* batch: every get_html call of this run: [url, timeout]
    inFlight,       \* batch: HTTP requests in flight
    last,           \* batch: the last item handled: [url, outcome]
    run,            \* batch: which run over the list this is
    prior,          \* batch: the output files that existed when the run began
    pdoc,           \* parties: the name-bearing elements of the page, in order
    role,           \* parties: "Assignee" or "Inventor"
    collected,      \* parties: the names gathered before the clean-up
    names,          \* parties: the list extract_assignees/_inventors returned
    strategy,       \* parties: which lookup gathered the names (0: none)
    pphase,         \* parties: "input" before the call, "done" after it
    ref,            \* data: the record the first extract_data call returned
    latest,         \* data: the record the latest extract_data call returned
    calls,          \* data: the number of extract_data calls made
    allocated,      \* data: the number of list objects created so far
    between,        \* data: a call on another document followed the first
    written,        \* data: what save_data did with the latest record
    text_files,     \* retry: for each input file, whether its output exists
    max_retries,    \* retry: the max_retries parameter
    fidx,           \* retry: the position of batch_process_folder's loop
    retries,        \* retry: process_file_with_retry's counter
    attempts,       \* retry: the calls of generate made for the current file
    outcome,        \* retry: how the latest attempt ended
    success,        \* retry: what process_file_with_retry returned
    failed_files,   \* retry: batch_process_folder's list of failed files
    rpc             \* retry: where the control is

claimVars == <<section, claims, raw, method, recovered, phase>>
batchVars == <<rows, output_format, timeout, idx, pc, patents, success_count,
               error_count, log, summary, saved, fetches, inFlight, last, run, prior>>
partyVars == <<pdoc, role, collected, names, strategy, pphase>>
dataVars == <<ref, latest, calls, allocated, between, written>>
retryVars == <<text_files, max_retries, fidx, retries, attempts, outcome, success,
               failed_files, rpc>>
extraVars == <<partyVars, dataVars, retryVars>>
vars == <<claimVars, batchVars, extraVars>>

PartyIdle ==
    /\ pdoc = <<>>
    /\ role = "Assignee"
    /\ collected = <<>>
    /\ names = <<>>
    /\ strategy = 0
    /\ pphase = "idle"

NoRecord == [html |-> [parts |-> {}, alt |-> FALSE]]
NoSave == [format |-> "none"]

DataIdle ==
    /\ ref = NoRecord
    /\ latest = NoRecord
    /\ calls = 0
    /\ allocated = 0
    /\ between = FALSE
    /\ written = NoSave

RetryIdle ==
    /\ text_files = <<>>
    /\ max_retries = 0
    /\ fidx = 1
    /\ retries = 0
    /\ attempts = 0
    /\ outcome = "none"
    /\ success = "none"
    /\ failed_files = <<>>
    /\ rpc = "idle"

ExtraIdle == PartyIdle /\ DataIdle /\ RetryIdle

\* ---------------------------------------------------------------- elements
\* One element of the section. kind: "div" (div.claim), "li" (item of an
\* ordered list), "claim" (<claim>), "txt" (bare text).
\*   id, num, depends : attributes (NoId / NoStr when absent)
\*   nested    : a div.claim inside another div.claim
\*   hct       : the div holds div.claim-text children
\*   text      : the element's own text
\*   refs      : the idref of each <claim-ref> in the element, in order
\*   depParent : the parent's class list holds 'claim-dependent'
\*   path      : the <ol>s a list item lies in, outermost first
MkElem(k, id, num, nested, hct, text, refs, depParent, depends, path) ==
    [kind |-> k, id |-> id, num |-> num, nested |-> nested, hct |-> hct,
     text |-> text, refs |-> refs, depParent |-> depParent,
     depends |-> depends, path |-> path]

\* find_all of one kind, in document order.
RECURSIVE FindAll(_, _)
FindAll(sec, k) ==
    IF sec = <<>> THEN <<>>
    ELSE (IF Head(sec).kind = k THEN <<Head(sec)>> ELSE <<>>) \o FindAll(Tail(sec), k)

\* ----------------------------------------------------------------- method 1
\* The claim number string of a div: num attribute, else the id pattern,
\* else the text before the first period when it is all digits.
DivNumStr(d) ==
    LET a == d.num
        b == IF a = NoStr /\ d.id # NoId THEN ClaimNumPattern(d.id) ELSE a
    IN IF b = NoStr /\ IsSet(d.text.lead) THEN Numeral(Val(d.text.lead)) ELSE b

\* The claim-ref loop: every reference that resolves to a smaller number
\* overwrites dependent_on.
RECURSIVE ClaimRefDependency(_, _, _)
ClaimRefDependency(refs, claim_num, dep) ==
    IF refs = <<>> THEN dep
    ELSE LET g == IF Head(refs) = NoId THEN None
                  ELSE ParseInt(ClaimNumPattern(Head(refs)))
             d2 == IF IsSet(g) /\ Val(g) < claim_num THEN g ELSE dep
         IN ClaimRefDependency(Tail(refs), claim_num, d2)

\* The default for a block whose parent is marked claim-dependent.
ParentDependencyUnmarked(d, t, claim_num, dep) ==
    IF Falsy(dep)
    THEN LET d2 == TextDependency(t, claim_num, dep)
         IN IF Falsy(d2) /\ claim_num > 1 THEN Some(claim_num - 1) ELSE d2
    ELSE dep
ParentDependency(d, t, claim_num, dep) ==
    IF Falsy(dep) /\ d.depParent
    THEN LET d2 == TextDependency(t, claim_num, dep)
         IN IF Falsy(d2) /\ claim_num > 1 THEN Some(claim_num - 1) ELSE d2
    ELSE dep

\* dependent_on of a div.claim block.
DivDependency(d, t, claim_num) ==
    LET a == ClaimRefDependency(d.refs, claim_num, None)
        b == IF Falsy(a) THEN TextDependency(t, claim_num, a) ELSE a
    IN ParentDependency(d, t, claim_num, b)

\* One pass of the loop over claim_divs; st = [claims, processed].
DivStepDefaulting(st, d) ==
    IF d.id \in st.processed \/ d.nested THEN st
    ELSE LET n == ParseInt(DivNumStr(d))
             claim_num == IF IsSet(n) THEN Val(n) ELSE 0
             t == StripPrefix(d.text, claim_num)
         IN IF NonEmpty(t)
            THEN [claims |-> Append(st.claims,
                        PatentClaim(claim_num, t, DivDependency(d, t, claim_num))),
                  processed |-> st.processed \cup
                        {IF d.id # NoId THEN d.id ELSE StrOfNum(claim_num)}]
            ELSE st
DivStep(st, d) ==
    IF d.id \in st.processed \/ d.nested THEN st
    ELSE LET n == ParseInt(DivNumStr(d))
         IN IF ~IsSet(n) THEN st
            ELSE LET claim_num == Val(n)
                     t == StripPrefix(d.text, claim_num)
                 IN IF NonEmpty(t)
                    THEN [claims |-> Append(st.claims,
                                PatentClaim(claim_num, t, DivDependency(d, t, claim_num))),
                          processed |-> st.processed \cup
                                {IF d.id # NoId THEN d.id ELSE StrOfNum(claim_num)}]
                    ELSE st

RECURSIVE DivLoop(_, _)
DivLoop(divs, st) ==
    IF divs = <<>> THEN st ELSE DivLoop(Tail(divs), DivStep(st, Head(divs)))

Method1(sec) == DivLoop(FindAll(sec, "div"), [claims |-> <<>>, processed |-> {}]).claims

\* ----------------------------------------------------------------- method 2
\* find_all('ol'): the lists, in the order in which they open.
RECURSIVE OlsOf(_, _)
OlsOf(lis, seen) ==
    IF lis = <<>> THEN <<>>
    ELSE LET new == SelectSeq(Head(lis).path, LAMBDA o : o \notin seen)
         IN new \o OlsOf(Tail(lis), seen \cup {new[i] : i \in 1..Len(new)})

\* ol.find_all('li'): every item below the list, nested lists included.
ItemsOf(lis, ol) ==
    SelectSeq(lis, LAMBDA e : \E i \in 1..Len(e.path) : e.path[i] = ol)

\* One list item at position i (1-based) of its list.
LiClaim(li, i) ==
    LET hasNum == IsSet(li.text.lead)
        claim_num == IF hasNum THEN Val(li.text.lead) ELSE i
        t == IF hasNum THEN StripLead(li.text) ELSE li.text
    IN IF NonEmpty(t)
       THEN <<PatentClaim(claim_num, t, TextDependency(t, claim_num, None))>>
       ELSE <<>>

RECURSIVE LiLoop(_, _)
LiLoop(items, i) ==
    IF i > Len(items) THEN <<>> ELSE LiClaim(items[i], i) \o LiLoop(items, i + 1)

RECURSIVE OlLoop(_, _)
OlLoop(lis, ols) ==
    IF ols = <<>> THEN <<>>
    ELSE LiLoop(ItemsOf(lis, Head(ols)), 1) \o OlLoop(lis, Tail(ols))

Method2(sec) ==
    LET lis == FindAll(sec, "li") IN OlLoop(lis, OlsOf(lis, {}))

\* ----------------------------------------------------------------- method 3
\* The claim number string of a <claim>: num, else the id pattern.
ElemNumStr(e) ==
    IF e.num = NoStr /\ e.id # NoId THEN ClaimNumPattern(e.id) ELSE e.num

\* dependent_on of a <claim>: the depends attribute as int() reads it,
\* else the text.
ElemDependency(e, claim_num) ==
    LET a == ParseInt(e.depends)
    IN IF Falsy(a) THEN TextDependency(e.text, claim_num, a) ELSE a

ElemClaim(e) ==
    LET n == ParseInt(ElemNumStr(e))
    IN IF IsSet(n) /\ NonEmpty(e.text)
       THEN <<PatentClaim(Val(n), e.text, ElemDependency(e, Val(n)))>>
       ELSE <<>>

RECURSIVE ElemLoop(_)
ElemLoop(es) ==
    IF es = <<>> THEN <<>> ELSE ElemClaim(Head(es)) \o ElemLoop(Tail(es))

Method3(sec) == ElemLoop(FindAll(sec, "claim"))

\* ----------------------------------------------------------------- method 4
\* claims_copy.get_text() cut by r'(\d+)\.\s+(.*?)(?=(?:\d+)\.|$)': a match
\* opens at every text that starts with a numeral and a period, and runs to
\* the next one; text before the first numeral belongs to no match.
RECURSIVE Fragments(_, _)
Fragments(sec, open) ==
    IF sec = <<>> THEN open
    ELSE LET t == Head(sec).text
         IN IF IsSet(t.lead)
            THEN open \o Fragments(Tail(sec), <<MkText(t.lead, t.body, t.phrases)>>)
            ELSE IF open = <<>> THEN Fragments(Tail(sec), open)
            ELSE Fragments(Tail(sec),
                    <<MkText(open[1].lead, open[1].body \/ t.body,
                             open[1].phrases \o t.phrases)>>)

FragmentClaim(f) ==
    LET claim_num == Val(f.lead)
        t == StripLead(f)
    IN IF NonEmpty(t)
       THEN <<PatentClaim(claim_num, t, TextDependency(t, claim_num, None))>>
       ELSE <<>>

RECURSIVE FragmentLoop(_)
FragmentLoop(fs) ==
    IF fs = <<>> THEN <<>> ELSE FragmentClaim(Head(fs)) \o FragmentLoop(Tail(fs))

Method4(sec) == FragmentLoop(Fragments(sec, <<>>))

\* ------------------------------------------------------ the four methods
\* Each method runs only while the list is still empty.
MethodUsed(sec) ==
    IF Method1(sec) # <<>> THEN 1
    ELSE IF Method2(sec) # <<>> THEN 2
    ELSE IF Method3(sec) # <<>> THEN 3
    ELSE IF Method4(sec) # <<>> THEN 4
    ELSE 0

MethodsMerged(sec) == Method1(sec) \o Method2(sec) \o Method3(sec) \o Method4(sec)
Methods(sec) ==
    LET m1 == Method1(sec)
        m2 == IF m1 = <<>> THEN Method2(sec) ELSE m1
        m3 == IF m2 = <<>> THEN Method3(sec) ELSE m2
    IN IF m3 = <<>> THEN Method4(sec) ELSE m3

\* ------------------------------------------------------- claim-1 recovery
\* The id test of the lookup: 'cl0001', 'cl001', 'cl01' or 'cl1' in the id.
\* Of the id forms here only en-cl<four digits> can hold one of them.
IsClaimOneId(id) ==
    /\ id.form = "en-cl"
    /\ \/ id.n = 1
       \/ id.n \in 10..19
       \/ id.n \in 100..199
       \/ id.n \in 1000..1999

\* claims_copy.find('div', id=...): the first such div, or none.
FindClaimOneDiv(sec) ==
    SelectSeq(sec, LAMBDA e : e.kind = "div" /\ IsClaimOneId(e.id))

RecoveryRuns(cs, sec) ==
    /\ ~ \E i \in 1..Len(cs) : cs[i].number = 1
    /\ cs # <<>>
    /\ cs[1].number > 1
    /\ FindClaimOneDiv(sec) # <<>>
    /\ FindClaimOneDiv(sec)[1].hct

Recovery(cs, sec) ==
    IF RecoveryRuns(cs, sec)
    THEN Append(cs, PatentClaim(1, FindClaimOneDiv(sec)[1].text, None))
    ELSE cs

\* -------------------------------------------------------------- the sort
\* claims.sort(key=lambda c: c.number): stable, ascending.
RECURSIVE InsertSorted(_, _)
InsertSorted(sorted, c) ==
    IF sorted = <<>> THEN <<c>>
    ELSE IF sorted[Len(sorted)].number <= c.number THEN Append(sorted, c)
    ELSE Append(InsertSorted(SubSeq(sorted, 1, Len(sorted) - 1), c), sorted[Len(sorted)])

RECURSIVE SortLoop(_, _)
SortLoop(cs, acc) ==
    IF cs = <<>> THEN acc ELSE SortLoop(Tail(cs), InsertSorted(acc, Head(cs)))

SortClaimsUnsorted(cs) == cs
SortClaims(cs) == SortLoop(cs, <<>>)

\* extract_claims(claims_section), before and after the sort.
ExtractRaw(sec) == IF sec = <<>> THEN <<>> ELSE Recovery(Methods(sec), sec)
ExtractClaims(sec) == SortClaims(ExtractRaw(sec))

\* ------------------------------------------------- the sections explored
PhraseSeqs == {<<>>} \cup {<<m>> : m \in Nums}

DivOf(id, num, nested, text, refs, dp) ==
    MkElem("div", id, num, nested, TRUE, text, refs, dp, NoStr, <<>>)

\* div.claim blocks: the usual block with each way of stating a dependency,
\* each way of carrying the number, and the malformed ones.
DivElems ==
    {DivOf(MkId("CLM-", n), Numeral(n), FALSE, MkText(Some(n), TRUE, ph), <<>>, dp) :
        n \in PosNums, ph \in PhraseSeqs, dp \in BOOLEAN}
    \cup {DivOf(MkId("CLM-", n), Numeral(n), FALSE, MkText(Some(n), TRUE, <<>>),
                <<MkId("CLM-", m)>>, FALSE) : n \in PosNums, m \in Nums}
    \cup {DivOf(NoId, Numeral(n), FALSE, MkText(Some(n), TRUE, <<>>), <<>>, FALSE) :
        n \in Nums}
    \cup {DivOf(MkId("en-cl", n), NoStr, b, MkText(None, TRUE, <<>>), <<>>, FALSE) :
        n \in PosNums, b \in BOOLEAN}
    \cup {DivOf(NoId, NoStr, FALSE, MkText(Some(n), TRUE, <<>>), <<>>, FALSE) :
        n \in PosNums}
    \cup {DivOf(MkId("x", 1), Junk, FALSE, MkText(Some(1), TRUE, <<>>), <<>>, FALSE),
          DivOf(MkId("CLM-", 1), Numeral(1), FALSE, MkText(Some(1), FALSE, <<>>), <<>>, FALSE)}

\* div.claim blocks that hold both a claim-ref and a reference phrase.
RefElems ==
    {DivOf(MkId("CLM-", n), Numeral(n), FALSE, MkText(Some(n), TRUE, <<p>>),
           <<MkId("CLM-", m)>>, FALSE) : n \in PosNums, m \in Nums, p \in Nums}

LiOf(path, text) ==
    MkElem("li", NoId, NoStr, FALSE, FALSE, text, <<>>, FALSE, NoStr, path)

\* Items of up to two ordered lists, the second one standing alone or nested
\* in the first.
LiElems ==
    {LiOf(path, MkText(None, TRUE, ph)) :
        path \in {<<1>>, <<2>>, <<1, 2>>}, ph \in PhraseSeqs}
    \cup {LiOf(<<1>>, MkText(Some(n), b, <<>>)) : n \in Nums, b \in BOOLEAN}

ClaimOf(id, num, depends, text) ==
    MkElem("claim", id, num, FALSE, FALSE, text, <<>>, FALSE, depends, <<>>)

DependsVals == {NoStr, Junk} \cup {Numeral(m) : m \in -1..MaxNum}

ClaimElems ==
    {ClaimOf(NoId, Numeral(n), d, MkText(None, TRUE, <<>>)) :
        n \in PosNums, d \in DependsVals}
    \cup {ClaimOf(NoId, Numeral(n), NoStr, MkText(None, TRUE, <<m>>)) :
        n \in PosNums, m \in Nums}
    \cup {ClaimOf(MkId("claim-", n), NoStr, NoStr, MkText(None, TRUE, <<>>)) :
        n \in PosNums}
    \cup {ClaimOf(NoId, Junk, NoStr, MkText(None, TRUE, <<>>)),
          ClaimOf(NoId, Numeral(1), NoStr, EmptyText)}

TxtOf(text) ==
    MkElem("txt", NoId, NoStr, FALSE, FALSE, text, <<>>, FALSE, NoStr, <<>>)

TxtElems ==
    {TxtOf(MkText(Some(n), TRUE, ph)) : n \in Nums, ph \in PhraseSeqs}
    \cup {TxtOf(MkText(None, TRUE, <<>>)), TxtOf(MkText(Some(1), FALSE, <<>>))}

\* Elements of every kind, for the sections that mix kinds: of each kind one
\* that yields claim 2 and one that yields nothing, and a nested block whose
\* id is that of claim 1.
MixElems ==
    {DivOf(MkId("CLM-", 2), Numeral(2), FALSE, MkText(Some(2), TRUE, <<>>), <<>>, FALSE),
     DivOf(MkId("x", 1), Junk, FALSE, MkText(None, TRUE, <<>>), <<>>, FALSE),
     DivOf(MkId("en-cl", 1), NoStr, TRUE, MkText(None, TRUE, <<>>), <<>>, FALSE),
     LiOf(<<1>>, MkText(Some(2), TRUE, <<>>)),
     LiOf(<<1>>, EmptyText),
     ClaimOf(NoId, Numeral(2), NoStr, MkText(None, TRUE, <<>>)),
     ClaimOf(NoId, Junk, NoStr, MkText(None, TRUE, <<>>)),
     TxtOf(MkText(Some(2), TRUE, <<1>>)),
     TxtOf(MkText(None, TRUE, <<>>))}

\* An element with claim-ref children and with the claim-dependent class on
\* its parent.
WithMarks(e, refs, dp) == [e EXCEPT !.refs = refs, !.depParent = dp]

\* A list item, a <claim> and a plain text, each for claim 2, holding a
\* claim-ref to claim 1 or not, under a parent marked dependent or not.
MarkedElems ==
    {WithMarks(e, refs, dp) :
        e \in {LiOf(<<1>>, MkText(Some(2), TRUE, <<>>)),
               ClaimOf(NoId, Numeral(2), NoStr, MkText(None, TRUE, <<>>)),
               TxtOf(MkText(Some(2), TRUE, <<>>))},
        refs \in {<<>>, <<MkId("CLM-", 1)>>},
        dp \in BOOLEAN}

\* <claim> elements that carry a depends attribute and a reference phrase.
DependsElems ==
    {ClaimOf(NoId, Numeral(n), d, MkText(None, TRUE, <<p>>)) :
        n \in PosNums, d \in DependsVals \ {NoStr}, p \in Nums}

\* A div.claim block without div.claim-text children.
PlainDivOf(id, num, nested, text) ==
    MkElem("div", id, num, nested, FALSE, text, <<>>, FALSE, NoStr, <<>>)

\* The blocks the claim-1 recovery meets: a block with the id of claim 1,
\* nested in another block or not, with claim-text children or without, with
\* text or with none, beside the blocks of claims 1 and 2.
RecoveryElems ==
    {DivOf(MkId("en-cl", 1), NoStr, nested, text, <<>>, FALSE) :
        nested \in BOOLEAN, text \in {EmptyText, MkText(None, TRUE, <<>>)}}
    \cup {PlainDivOf(MkId("en-cl", 1), NoStr, TRUE, MkText(None, TRUE, <<>>)),
          DivOf(MkId("CLM-", 1), Numeral(1), FALSE, MkText(Some(1), TRUE, <<>>), <<>>, FALSE),
          DivOf(MkId("CLM-", 2), Numeral(2), FALSE, MkText(Some(2), TRUE, <<>>), <<>>, FALSE)}

\* Blocks and <claim> elements of which one has a number int() rejects.
MalformedDivs ==
    {DivOf(MkId("CLM-", n), Numeral(n), FALSE, MkText(Some(n), TRUE, <<>>), <<>>, FALSE) :
        n \in PosNums}
    \cup {DivOf(MkId("x", 1), Junk, FALSE, MkText(None, TRUE, <<>>), <<>>, FALSE)}
MalformedClaims ==
    {ClaimOf(NoId, Numeral(n), NoStr, MkText(None, TRUE, <<>>)) : n \in PosNums}
    \cup {ClaimOf(NoId, Junk, NoStr, MkText(None, TRUE, <<>>))}

\* A claim of each kind whose text holds two reference phrases.
TwoPhraseElems ==
    UNION {{DivOf(MkId("CLM-", n), Numeral(n), FALSE, MkText(Some(n), TRUE, ph), <<>>, FALSE),
            LiOf(<<1>>, MkText(Some(n), TRUE, ph)),
            ClaimOf(NoId, Numeral(n), NoStr, MkText(None, TRUE, ph)),
            TxtOf(MkText(Some(n), TRUE, ph))} :
        n \in PosNums, ph \in {<<a, b>> : a \in Nums, b \in Nums}}

\* A block with two claim-ref children, numbered above every claim they can
\* name but the last two, with a reference phrase in its text or without.
TwoRefElems ==
    {DivOf(MkId("CLM-", MaxNum + 1), Numeral(MaxNum + 1), FALSE,
           MkText(Some(MaxNum + 1), TRUE, ph),
           <<MkId("CLM-", a), MkId("CLM-", b)>>, FALSE) :
        a \in 0..(MaxNum + 2), b \in 0..(MaxNum + 2), ph \in {<<>>, <<1>>}}

\* Sections long enough to hold a malformed element between two others.
Around(E) == [1..(MaxElems + 1) -> E]

\* A list numbered 2 is nested in list 1 everywhere or nowhere.
WellFormed(sec) ==
    ~ \E i, j \in 1..Len(sec) : sec[i].path = <<2>> /\ sec[j].path = <<1, 2>>

SeqsOver(E) == UNION {[1..k -> E] : k \in 0..MaxElems}
OneOf(E) == {<<e>> : e \in E}

\* Sections of one kind of element, and sections mixing the kinds.
Sections ==
    {sec \in SeqsOver(DivElems) \cup SeqsOver(RefElems) \cup SeqsOver(LiElems)
              \cup SeqsOver(ClaimElems) \cup SeqsOver(TxtElems) \cup SeqsOver(MixElems)
              \cup OneOf(MarkedElems) \cup OneOf(DependsElems)
              \cup SeqsOver(RecoveryElems)
              \cup Around(MalformedDivs) \cup Around(MalformedClaims)
              \cup OneOf(TwoPhraseElems) \cup OneOf(TwoRefElems) :
        WellFormed(sec)}

\* ------------------------------------------------------ the claims parser
ClaimsInit ==
    /\ section \in Sections
    /\ claims = <<>>
    /\ raw = <<>>
    /\ method = 0
    /\ recovered = FALSE
    /\ phase = "input"

\* claims = extract_claims(claims_section)
Extract ==
    /\ phase = "input"
    /\ raw' = ExtractRaw(section)
    /\ claims' = ExtractClaims(section)
    /\ method' = MethodUsed(section)
    /\ recovered' = RecoveryRuns(Methods(section), section)
    /\ phase' = "done"
    /\ UNCHANGED <<section, batchVars, extraVars>>

BatchIdle ==
    /\ rows = <<>>
    /\ output_format = "yaml"
    /\ timeout = 0
    /\ idx = 1
    /\ pc = "idle"
    /\ patents = <<>>
    /\ success_count = 0
    /\ error_count = 0
    /\ log = <<>>
    /\ summary = <<>>
    /\ saved = {}
    /\ fetches = <<>>
    /\ inFlight = 0
    /\ last = [url |-> 0, event |-> "none"]
    /\ run = 1
    /\ prior = {}

Init == ClaimsInit /\ BatchIdle /\ ExtraIdle
Next == Extract
Spec == Init /\ [][Next]_vars

\* --------------------------------------------------------------- the batch
\* The URL column: row i holds URL i or is blank (NaN or '').
Blank == 0
IsBlank(url) == url = Blank

\* The timeout requests.get is called with.
HttpTimeout == 30
RequestTimeout(timeout_param) == HttpTimeout

\* What can happen to one item: get_html raises, returns '', returns a page
\* without a publication number, or returns a page with one; writing the
\* output file then fails or not.
Events ==
    {[fetch |-> "raise", number |-> FALSE, disk |-> "ok"],
     [fetch |-> "empty", number |-> FALSE, disk |-> "ok"],
     [fetch |-> "html", number |-> FALSE, disk |-> "ok"],
     [fetch |-> "html", number |-> TRUE, disk |-> "ok"],
     [fetch |-> "html", number |-> TRUE, disk |-> "fail"]}

\* extract_data(html).patent_number: the URL's own number, or '' (0).
PatentNumber(ev, url) == IF ev.number THEN url ELSE 0

\* `if not patent_data.patent_number`
ValidNumberAlways(patent_number) == TRUE
ValidNumber(patent_number) == patent_number # 0

\* The body of save_data's try block: the branch of the format writes the
\* file ("written") or fails on the disk; any other format raises ValueError.
SaveInner(format, disk) ==
    IF format \in {"yaml", "json", "text"}
    THEN (IF disk = "ok" THEN "written" ELSE "OSError")
    ELSE "ValueError"

\* `except Exception as e: raise IOError(...) from e`
Rewrap(exc) == "IOError"

\* save_data: writes yaml, json and text; any other format, and any failure
\* to write, ends in IOError.
SaveData(format, disk) ==
    IF SaveInner(format, disk) = "written" THEN "saved"
    ELSE Rewrap(SaveInner(format, disk))

\* `except Exception`: catches whatever get_html, extract_data and save_data
\* raise.
CaughtOnlyIOError(exc) == exc = "IOError"
Caught(exc) == exc \in {"RequestException", "IOError"}

\* How the loop body ends for one fetched item.
Classify(ev, url, format) ==
    IF ev.fetch = "raise"
    THEN (IF Caught("RequestException") THEN "error" ELSE "raised")
    ELSE IF ev.fetch = "empty" THEN "error"
    ELSE IF ~ValidNumber(PatentNumber(ev, url)) THEN "error"
    ELSE IF SaveData(format, ev.disk) = "saved" THEN "success"
    ELSE IF Caught("IOError") THEN "error"
    ELSE "raised"

\* get_html is a blocking call: the loop issues a request only when none is
\* outstanding.
CanStartFetchAnytime == pc \in {"loop", "fetching"}
CanStartFetch == pc = "loop"

\* The summary is written after the for loop.
SummaryReadyAnytime == TRUE
SummaryReady == idx > Len(rows)

MaxRows == 3
MaxRuns == 2
RowLists == UNION {{r \in [1..k -> 0..k] : \A i \in 1..k : r[i] \in {Blank, i}} : k \in 0..MaxRows}
Formats == {"yaml", "json", "sqlite"}
Timeouts == {HttpTimeout, 2 * HttpTimeout}

NoItem == [url |-> 0, event |-> "none"]
EventName(ev) ==
    IF ev.fetch = "raise" THEN "fetch_raises"
    ELSE IF ev.fetch = "empty" THEN "empty_content"
    ELSE IF ~ev.number THEN "no_number"
    ELSE IF ev.disk = "fail" THEN "disk_fails"
    ELSE "page"

ClaimsIdle ==
    /\ section = <<>>
    /\ claims = <<>>
    /\ raw = <<>>
    /\ method = 0
    /\ recovered = FALSE
    /\ phase = "idle"

BatchInit ==
    /\ rows \in RowLists
    /\ output_format \in Formats
    /\ timeout \in Timeouts
    /\ idx = 1
    /\ pc = "loop"
    /\ patents = <<>>
    /\ success_count = 0
    /\ error_count = 0
    /\ log = <<>>
    /\ summary = <<>>
    /\ saved = {}
    /\ fetches = <<>>
    /\ inFlight = 0
    /\ last = NoItem
    /\ run = 1
    /\ prior = {}

\* `if not url or pd.isna(url): continue`
SkipBlank ==
    /\ pc = "loop"
    /\ idx <= Len(rows)
    /\ IsBlank(rows[idx])
    /\ idx' = idx + 1
    /\ UNCHANGED <<claimVars, extraVars, rows, output_format, timeout, pc, patents, success_count,
                   error_count, log, summary, saved, fetches, inFlight, last, run, prior>>

\* get_html(url, is_url=True) sends its request.
StartFetch ==
    /\ CanStartFetch
    /\ idx <= Len(rows)
    /\ ~IsBlank(rows[idx])
    /\ pc' = "fetching"
    /\ inFlight' = inFlight + 1
    /\ fetches' = Append(fetches, [url |-> rows[idx], timeout |-> RequestTimeout(timeout)])
    /\ UNCHANGED <<claimVars, extraVars, rows, output_format, timeout, idx, patents,
                   success_count, error_count, log, summary, saved, last, run, prior>>

\* get_html returns or raises, and the rest of the loop body runs: the
\* content check, extract_data, the patent number check, save_data, the tally.
FetchReturn ==
    /\ pc = "fetching"
    /\ \E ev \in Events :
        LET url == rows[idx]
            end == Classify(ev, url, output_format)
        IN /\ last' = [url |-> url, event |-> EventName(ev)]
           /\ inFlight' = inFlight - 1
           /\ IF end = "success"
              THEN /\ saved' = saved \cup {PatentNumber(ev, url)}
                   /\ patents' = Append(patents, PatentNumber(ev, url))
                   /\ success_count' = success_count + 1
                   /\ UNCHANGED <<error_count, log>>
              ELSE IF end = "error"
              THEN /\ log' = Append(log, url)
                   /\ error_count' = error_count + 1
                   /\ UNCHANGED <<saved, patents, success_count>>
              ELSE UNCHANGED <<saved, patents, success_count, error_count, log>>
           /\ pc' = IF end = "raised" THEN "raised" ELSE "loop"
           /\ idx' = IF end = "raised" THEN idx ELSE idx + 1
    /\ UNCHANGED <<claimVars, extraVars, rows, output_format, timeout, summary, fetches, run, prior>>

\* The summary lines, and the return.
WriteSummary ==
    /\ pc = "loop"
    /\ SummaryReady
    /\ summary' = Append(summary, [total |-> Len(rows), succeeded |-> success_count,
                                   failed |-> error_count])
    /\ pc' = "done"
    /\ UNCHANGED <<claimVars, extraVars, rows, output_format, timeout, idx, patents,
                   success_count, error_count, log, saved, fetches, inFlight, last, run, prior>>

\* The same call again, over the same CSV and output directory: the log is
\* reopened with mode 'w', the output files of the earlier run remain.
Rerun ==
    /\ pc = "done"
    /\ run < MaxRuns
    /\ run' = run + 1
    /\ prior' = saved
    /\ idx' = 1
    /\ pc' = "loop"
    /\ patents' = <<>>
    /\ success_count' = 0
    /\ error_count' = 0
    /\ log' = <<>>
    /\ summary' = <<>>
    /\ fetches' = <<>>
    /\ last' = NoItem
    /\ UNCHANGED <<claimVars, extraVars, rows, output_format, timeout, saved, inFlight>>

BatchNext ==
    \/ SkipBlank
    \/ StartFetch
    \/ FetchReturn
    \/ WriteSummary
    \/ Rerun

InitBatch == ClaimsIdle /\ BatchInit /\ ExtraIdle
SpecBatch == InitBatch /\ [][BatchNext]_vars

\* ------------------------------------------------------------- party names
\* A name as it stands in the page, after get_text(strip=True): an optional
\* label "<prefix> <Role>:" (prefix Current or Original) followed by the rest.
\* The rest "LABEL" is the role's own word ("Assignee" / "Inventor") alone,
\* "" is nothing, "X" is a single character.
Str(prefix, base) == [prefix |-> prefix, base |-> base]
IsEmptyStr(n) == n.prefix = "" /\ n.base = ""

\* `any(c in name for c in [<Role>, "Current", "Original"])`
HasLabelWord(n) ==
    \/ n.prefix # ""
    \/ n.base \in {"LABEL", "Original Equipment Co"}

\* re.sub(r"^(Current|Original)\s+<Role>:?\s*", "", name).strip()
StripLabel(n) == Str("", n.base)

\* len(name) > 1
LongerThanOne(n) == n.prefix # "" \/ n.base \notin {"", "X"}

\* One name-bearing element. where: "tagged" (itemprop=<role>), "section"
\* (a child of the role's section), "dtdd" (the dd after a dt naming the
\* role), "row" (the second cell of a row whose first names the role), "div5"
\* (a child of a div.patent-assignee / assignee-list). sub: the text of an
\* itemprop=name element inside a tagged element, when there is one.
PartyElem(where, sub, text) == [where |-> where, sub |-> sub, text |-> text]

InList(n, acc) == \E i \in 1..Len(acc) : acc[i] = n

\* `if name and name not in assignees: assignees.append(name)`
AppendNew(acc, n) ==
    IF ~IsEmptyStr(n) /\ ~InList(n, acc) THEN Append(acc, n) ELSE acc

\* The name of a tagged element: the nested name element's text if there is
\* one, else the element's text.
TaggedName(e) == IF e.sub # <<>> THEN e.sub[1] ELSE e.text

RECURSIVE TaggedNames(_, _)
TaggedNames(doc, acc) ==
    IF doc = <<>> THEN acc
    ELSE TaggedNames(Tail(doc),
            IF Head(doc).where = "tagged" THEN AppendNew(acc, TaggedName(Head(doc)))
            ELSE acc)

RECURSIVE SectionNames(_, _)
SectionNames(doc, acc) ==
    IF doc = <<>> THEN acc
    ELSE SectionNames(Tail(doc),
            IF Head(doc).where = "section" /\ ~HasLabelWord(Head(doc).text)
            THEN AppendNew(acc, Head(doc).text)
            ELSE acc)

\* The dt/dd pairs and the table rows: the same loop over another element.
RECURSIVE PlainNames(_, _, _)
PlainNames(doc, where, acc) ==
    IF doc = <<>> THEN acc
    ELSE PlainNames(Tail(doc), where,
            IF Head(doc).where = where THEN AppendNew(acc, Head(doc).text) ELSE acc)

RECURSIVE DivNames(_, _)
DivNames(doc, acc) ==
    IF doc = <<>> THEN acc
    ELSE DivNames(Tail(doc),
            IF Head(doc).where = "div5" /\ LongerThanOne(Head(doc).text)
            THEN AppendNew(acc, Head(doc).text)
            ELSE acc)

\* The lookups in order, each run only while no name has been found; the
\* fifth exists in extract_assignees only. The result is <<names, lookup>>.
GatherMerged(doc, r) ==
    <<TaggedNames(doc, <<>>) \o SectionNames(doc, <<>>) \o PlainNames(doc, "dtdd", <<>>)
        \o PlainNames(doc, "row", <<>>), 1>>
Gather(doc, r) ==
    LET m1 == TaggedNames(doc, <<>>)
        m2 == SectionNames(doc, <<>>)
        m3 == PlainNames(doc, "dtdd", <<>>)
        m4 == PlainNames(doc, "row", <<>>)
        m5 == IF r = "Assignee" THEN DivNames(doc, <<>>) ELSE <<>>
    IN IF m1 # <<>> THEN <<m1, 1>>
       ELSE IF m2 # <<>> THEN <<m2, 2>>
       ELSE IF m3 # <<>> THEN <<m3, 3>>
       ELSE IF m4 # <<>> THEN <<m4, 4>>
       ELSE IF m5 # <<>> THEN <<m5, 5>>
       ELSE <<<<>>, 0>>

\* The clean-up loop: strip the label, drop what is empty or already there.
RECURSIVE CleanUpKeepingAll(_, _)
CleanUpKeepingAll(raw_names, acc) ==
    IF raw_names = <<>> THEN acc
    ELSE CleanUpKeepingAll(Tail(raw_names),
            IF IsEmptyStr(StripLabel(Head(raw_names))) THEN acc
            ELSE Append(acc, StripLabel(Head(raw_names))))
RECURSIVE CleanUp(_, _)
CleanUp(raw_names, acc) ==
    IF raw_names = <<>> THEN acc
    ELSE CleanUp(Tail(raw_names), AppendNew(acc, StripLabel(Head(raw_names))))

MaxParty == 2

PageNames ==
    {Str("", ""), Str("", "LABEL"), Str("", "Acme"), Str("Current", "Acme"),
     Str("", "Bolt"), Str("", "Original Equipment Co"), Str("Original", ""),
     Str("Current", "LABEL")}

PartyElems ==
    {PartyElem(w, <<>>, n) : w \in {"tagged", "section", "dtdd", "row", "div5"},
                             n \in PageNames}
    \cup {PartyElem("tagged", <<n>>, Str("", "LABEL")) : n \in {Str("", "Acme"), Str("", "")}}
    \cup {PartyElem("div5", <<>>, Str("", "X"))}

PartyDocs == UNION {[1..k -> PartyElems] : k \in 0..MaxParty}

PartyInit ==
    /\ pdoc \in PartyDocs
    /\ role \in {"Assignee", "Inventor"}
    /\ collected = <<>>
    /\ names = <<>>
    /\ strategy = 0
    /\ pphase = "input"

\* names = extract_assignees(soup) / extract_inventors(soup)
ExtractParty ==
    /\ pphase = "input"
    /\ collected' = Gather(pdoc, role)[1]
    /\ strategy' = Gather(pdoc, role)[2]
    /\ names' = CleanUp(Gather(pdoc, role)[1], <<>>)
    /\ pphase' = "done"
    /\ UNCHANGED <<pdoc, role, claimVars, batchVars, dataVars, retryVars>>

InitParty == ClaimsIdle /\ BatchIdle /\ PartyInit /\ DataIdle /\ RetryIdle
NextParty == ExtractParty
SpecParty == InitParty /\ [][NextParty]_vars

\* ------------------------------------------------------------ extract_data
\* A page is told by the parts it holds and by which markup it uses for them
\* (alt: the markup the later lookups of a fallback chain find).
Parts ==
    {"publicationNumber", "title", "dates", "parties", "abstract",
     "description", "claims"}
Page(parts, alt) == [parts |-> parts, alt |-> alt]

\* One element of the page: tag, itemprop, id, stripped text, the text of an
\* itemprop=title span inside it, and the datetime of a <time> inside it.
El(tag, itemprop, id, text, child, datetime) ==
    [tag |-> tag, itemprop |-> itemprop, id |-> id, text |-> text,
     child |-> child, datetime |-> datetime]

EventTitle(d) == IF d.alt THEN "Application filed" ELSE "Application granted"

\* The elements of the page in document order. A legal event is a
\* dd itemprop=events holding a span itemprop=title and a time.
Elements(d) ==
    (IF "title" \in d.parts
     THEN <<El("span", "title", "", "Widget", <<>>, <<>>)>> ELSE <<>>)
    \o (IF "publicationNumber" \in d.parts
        THEN <<El("dd", "publicationNumber", "", "US1", <<>>, <<>>)>> ELSE <<>>)
    \o (IF "dates" \in d.parts
        THEN <<El("time", "priorityDate", "", "2001-01-01", <<>>, <<>>),
               El("time", "filingDate", "", "2002-02-02", <<>>, <<>>),
               El("time", "publicationDate", "", "2003-03-03", <<>>, <<>>),
               El("dd", "events", "", EventTitle(d), <<EventTitle(d)>>, <<"2004-04-04">>),
               El("span", "title", "", EventTitle(d), <<>>, <<>>)>>
        ELSE <<>>)
    \o (IF "abstract" \in d.parts
        THEN (IF d.alt THEN <<El("section", "", "abstract", "A widget.", <<>>, <<>>)>>
              ELSE <<El("abstract", "", "", "A widget.", <<>>, <<>>)>>)
        ELSE <<>>)
    \o (IF "description" \in d.parts
        THEN (IF d.alt THEN <<El("div", "", "descriptionText", "It works.", <<>>, <<>>)>>
              ELSE <<El("section", "description", "", "It works.", <<>>, <<>>)>>)
        ELSE <<>>)
    \o (IF "claims" \in d.parts
        THEN (IF d.alt THEN <<El("section", "claims", "", "", <<>>, <<>>)>>
              ELSE <<El("div", "", "claims", "", <<>>, <<>>)>>)
        ELSE <<>>)

\* The elements inside the claims section of the page.
ClaimsContent(d) ==
    IF d.alt
    THEN <<LiOf(<<1>>, MkText(None, TRUE, <<>>)), LiOf(<<1>>, MkText(None, TRUE, <<1>>))>>
    ELSE <<DivOf(MkId("CLM-", 1), Numeral(1), FALSE, MkText(Some(1), TRUE, <<>>), <<>>, FALSE),
           DivOf(MkId("CLM-", 2), Numeral(2), FALSE, MkText(Some(2), TRUE, <<1>>), <<>>, TRUE)>>

\* The name-bearing elements of the page for one role.
PartyContent(d, r) ==
    IF "parties" \notin d.parts THEN <<>>
    ELSE IF d.alt
    THEN <<PartyElem("dtdd", <<>>, Str("Current", IF r = "Assignee" THEN "Acme" ELSE "Bolt"))>>
    ELSE <<PartyElem("tagged", <<>>, Str("", IF r = "Assignee" THEN "Acme" ELSE "Bolt"))>>

\* soup.find(...): the first element that passes the test, None if none does.
\* hits: the positions of the elements that pass.
FirstWhere(elems, hits) ==
    IF hits = {} THEN None
    ELSE <<elems[CHOOSE i \in hits : \A j \in hits : i <= j]>>

\* extract_text(soup, itemprop)
ExtractTextUnguarded(elems, itemprop) ==
    LET element == FirstWhere(elems, {i \in 1..Len(elems) : elems[i].itemprop = itemprop})
    IN IF element = None THEN "AttributeError" ELSE element[1].text
ExtractText(elems, itemprop) ==
    LET element == FirstWhere(elems, {i \in 1..Len(elems) : elems[i].itemprop = itemprop})
    IN IF element = None THEN "" ELSE element[1].text

\* extract_grant_date(soup): the datetime of the first event whose title
\* holds "Application granted" and which has a time with a datetime.
ExtractGrantDate(elems) ==
    LET event == FirstWhere(elems,
                    {i \in 1..Len(elems) :
                        /\ elems[i].tag = "dd" /\ elems[i].itemprop = "events"
                        /\ elems[i].child = <<"Application granted">>
                        /\ elems[i].datetime # <<>>})
    IN IF event = None THEN "" ELSE event[1].datetime[1]

\* extract_abstract(soup)
ExtractAbstract(elems) ==
    LET abstract_section ==
            FirstWhere(elems,
                {i \in 1..Len(elems) :
                    \/ elems[i].tag = "abstract"
                    \/ elems[i].itemprop = "abstract"
                    \/ (elems[i].tag = "section" /\ elems[i].id = "abstract")})
    IN IF abstract_section = None THEN "" ELSE abstract_section[1].text

\* extract_description(soup)
ExtractDescription(elems) ==
    LET description_section ==
            FirstWhere(elems,
                {i \in 1..Len(elems) :
                    \/ (elems[i].tag = "section" /\ elems[i].itemprop = "description")
                    \/ elems[i].id = "descriptionText"
                    \/ (elems[i].tag = "section" /\ elems[i].id = "description")})
    IN IF description_section = None THEN "" ELSE description_section[1].text

\* soup.find(id="claims") or soup.find("section", attrs={"itemprop": "claims"});
\* extract_claims(None) is [].
ClaimsOfPage(d) ==
    LET elems == Elements(d)
        claims_section ==
            FirstWhere(elems,
                {i \in 1..Len(elems) :
                    \/ elems[i].id = "claims"
                    \/ (elems[i].tag = "section" /\ elems[i].itemprop = "claims")})
    IN IF claims_section = None THEN <<>> ELSE ExtractClaims(ClaimsContent(d))

\* A list object: which object it is and what it holds. Every call builds its
\* lists anew (`assignees = []`, `inventors = []`, `claims = []`).
SharedList(count, k, items) == [obj |-> k, items |-> items]
NewList(count, k, items) == [obj |-> count + k, items |-> items]

\* extract_data(html_content), with `count` list objects created before it.
ExtractDataOf(d, count) ==
    LET elems == Elements(d)
        scalars == [key \in {"publicationNumber", "title", "filingDate",
                             "publicationDate", "priorityDate"}
                        |-> ExtractText(elems, key)]
    IN [html |-> d,
        raised |-> \E key \in DOMAIN scalars : scalars[key] = "AttributeError",
        patent_number |-> scalars["publicationNumber"],
        title |-> scalars["title"],
        inventors |-> NewList(count, 1, CleanUp(Gather(PartyContent(d, "Inventor"), "Inventor")[1], <<>>)),
        assignees |-> NewList(count, 2, CleanUp(Gather(PartyContent(d, "Assignee"), "Assignee")[1], <<>>)),
        filing_date |-> scalars["filingDate"],
        publication_date |-> scalars["publicationDate"],
        priority_date |-> scalars["priorityDate"],
        grant_date |-> ExtractGrantDate(elems),
        abstract |-> ExtractAbstract(elems),
        description |-> ExtractDescription(elems),
        claims |-> NewList(count, 3, ClaimsOfPage(d))]

MaxCalls == 3

Pages == {Page(parts, alt) : parts \in SUBSET Parts, alt \in BOOLEAN}
OtherPages == {Page(parts, alt) : parts \in {{}, Parts, {"parties", "claims"}}, alt \in BOOLEAN}
SaveFormats == {"yaml", "json", "text", "sqlite", "xml"}

DataInit ==
    /\ ref = NoRecord
    /\ latest = NoRecord
    /\ calls = 0
    /\ allocated = 0
    /\ between = FALSE
    /\ written = NoSave

\* patent_data = extract_data(html_content): the first call on any page, the
\* later ones on the first page again or on another one.
ExtractData ==
    /\ calls < MaxCalls
    /\ written = NoSave
    /\ \E d \in (IF calls = 0 THEN Pages ELSE {ref.html} \cup OtherPages) :
          /\ latest' = ExtractDataOf(d, allocated)
          /\ ref' = IF calls = 0 THEN ExtractDataOf(d, allocated) ELSE ref
          /\ between' = (between \/ (calls > 0 /\ d # ref.html))
    /\ calls' = calls + 1
    /\ allocated' = allocated + 3
    /\ UNCHANGED <<written, claimVars, batchVars, partyVars, retryVars>>

\* save_data(patent_data, output, format)
Save ==
    /\ calls > 0
    /\ written = NoSave
    /\ \E format \in SaveFormats, disk \in {"ok", "fail"} :
          written' = [format |-> format, disk |-> disk,
                      outcome |-> SaveData(format, disk),
                      file |-> SaveInner(format, disk) = "written"]
    /\ UNCHANGED <<ref, latest, calls, allocated, between, claimVars, batchVars, partyVars,
                   retryVars>>

InitData == ClaimsIdle /\ BatchIdle /\ PartyIdle /\ DataInit /\ RetryIdle
NextData == ExtractData \/ Save
SpecData == InitData /\ [][NextData]_vars

\* ------------------------------------------------- process_file_with_retry
MaxRetries == 3
MaxFiles == 2

\* max_retries is any integer: the default 3, smaller ones, 0 and a negative.
RetryLimits == -1..MaxRetries
FileLists == UNION {[1..k -> BOOLEAN] : k \in 0..MaxFiles}

\* How one pass of the try block ends: generate and save_as_yaml both return,
\* or one of them raises.
Attempts == {"ok", "generate_raises", "save_raises"}

\* `if not success`
NotSuccess(result) == result \in {"False", "None"}

\* `while retries < max_retries`
LoopRuns(count, limit) == count < limit

RetryInit ==
    /\ text_files \in FileLists
    /\ max_retries \in RetryLimits
    /\ fidx = 1
    /\ retries = 0
    /\ attempts = 0
    /\ outcome = "none"
    /\ success = "none"
    /\ failed_files = <<>>
    /\ rpc = "next"

\* process_file_with_retry is called for the next file: it returns True at
\* once if the output exists, enters the loop if retries < max_retries, and
\* otherwise falls off its end, returning None.
Enter ==
    /\ rpc = "next"
    /\ fidx <= Len(text_files)
    /\ retries' = 0
    /\ attempts' = 0
    /\ outcome' = "none"
    /\ IF text_files[fidx]
       THEN success' = "True" /\ rpc' = "returned"
       ELSE IF LoopRuns(0, max_retries)
       THEN success' = "none" /\ rpc' = "try"
       ELSE success' = "None" /\ rpc' = "returned"
    /\ UNCHANGED <<text_files, max_retries, fidx, failed_files, claimVars, batchVars,
                   partyVars, dataVars>>

\* One pass of the loop body: generate, save_as_yaml, and the except clause.
Attempt ==
    /\ rpc = "try"
    /\ \E a \in Attempts :
          /\ outcome' = a
          /\ attempts' = attempts + 1
          /\ IF a = "ok"
             THEN /\ success' = "True"
                  /\ rpc' = "returned"
                  /\ text_files' = [text_files EXCEPT ![fidx] = TRUE]
                  /\ UNCHANGED retries
             ELSE /\ retries' = retries + 1
                  /\ UNCHANGED text_files
                  /\ IF LoopRuns(retries + 1, max_retries)
                     THEN success' = "none" /\ rpc' = "try"
                     ELSE success' = "False" /\ rpc' = "returned"
    /\ UNCHANGED <<max_retries, fidx, failed_files, claimVars, batchVars, partyVars, dataVars>>

\* batch_process_folder takes the result: `if not success:
\* failed_files.append(file)`, and moves to the next file.
Tally ==
    /\ rpc = "returned"
    /\ failed_files' = IF NotSuccess(success) THEN Append(failed_files, fidx)
                       ELSE failed_files
    /\ fidx' = fidx + 1
    /\ rpc' = "next"
    /\ UNCHANGED <<text_files, max_retries, retries, attempts, outcome, success,
                   claimVars, batchVars, partyVars, dataVars>>

\* The summary and `return failed_files`.
ReturnFailed ==
    /\ rpc = "next"
    /\ fidx > Len(text_files)
    /\ rpc' = "done"
    /\ UNCHANGED <<text_files, max_retries, fidx, retries, attempts, outcome, success,
                   failed_files, claimVars, batchVars, partyVars, dataVars>>

InitRetry == ClaimsIdle /\ BatchIdle /\ PartyIdle /\ DataIdle /\ RetryInit
NextRetry ==
    \/ Enter
    \/ Attempt
    \/ Tally
    \/ ReturnFailed
SpecRetry == InitRetry /\ [][NextRetry]_vars

\* ------------------------------------------------------------------ claims
\* C1: in the list extract_claims returns, every claim's dependent_on is unset
\* or a positive integer strictly smaller than the claim's own number.
C1_DependsOnSmaller ==
    phase = "done" =>
        \A i \in 1..Len(claims) :
            \/ claims[i].dependent_on = None
            \/ /\ Val(claims[i].dependent_on) >= 1
               /\ Val(claims[i].dependent_on) < claims[i].number

\* C2: the list extract_claims returns never holds two claims with the same
\* number.
C2_NoDuplicateNumbers ==
    phase = "done" =>
        \A i, j \in 1..Len(claims) : i # j => claims[i].number # claims[j].number

\* C3: the list extract_claims returns is in ascending (non-decreasing) order
\* of claim number, whichever method produced it and also after the claim-1
\* recovery appended a claim at the end.
C3_Sorted ==
    phase = "done" =>
        \A i, j \in 1..Len(claims) : i < j => claims[i].number <= claims[j].number

\* C3 witness: the recovery appended claim 1 behind a later claim, and the
\* sort moved it to the front.
C3_Witness ==
    /\ phase = "done"
    /\ recovered
    /\ Len(raw) >= 2
    /\ raw[Len(raw)].number = 1
    /\ claims[1].number = 1
    /\ raw # claims

\* The non-blank rows among the first k.
RECURSIVE NonBlank(_, _)
NonBlank(r, k) ==
    IF k = 0 THEN <<>>
    ELSE NonBlank(r, k - 1) \o (IF IsBlank(r[k]) THEN <<>> ELSE <<r[k]>>)

\* C4: a failure while processing one item (the fetch raises or returns
\* nothing, no patent number is extracted, saving raises) never stops the
\* batch: no exception leaves the loop, every non-blank URL up to the loop's
\* position has been fetched, in order, and at the return all of them have and
\* the list returned holds the items that succeeded.
C4_FailureNeverStops ==
    /\ pc # "raised"
    /\ LET due == NonBlank(rows, IF pc = "fetching" THEN idx ELSE idx - 1)
       IN /\ Len(fetches) = Len(due)
          /\ \A i \in 1..Len(due) : fetches[i].url = due[i]
    /\ pc = "done" =>
          /\ idx = Len(rows) + 1
          /\ Len(patents) = success_count
          /\ Len(log) = error_count
          /\ \A i \in 1..Len(patents) : patents[i] \in saved

\* C4 witness: the batch returned after an item failed and a later item
\* succeeded.
C4_Witness ==
    /\ pc = "done"
    /\ \E i \in 1..Len(log), j \in 1..Len(patents) : log[i] < patents[j]

\* C5: when the summary is written, success count + error count equals the
\* reported total number of items (the rows after the limit), blank rows
\* included.
C5_EveryItemTallied ==
    \A i \in 1..Len(summary) :
        summary[i].succeeded + summary[i].failed = summary[i].total

\* C6: when extract_data returns an empty patent_number for a fetched item, the
\* item is a failure: error count + 1, an error line naming the URL, nothing
\* saved, nothing added to the list returned, and no exception escapes.
C6_EmptyNumberIsFailure ==
    [][(pc = "fetching" /\ pc' # "fetching" /\ last'.event = "no_number") =>
          /\ error_count' = error_count + 1
          /\ log' = Append(log, rows[idx])
          /\ saved' = saved
          /\ patents' = patents
          /\ success_count' = success_count
          /\ pc' = "loop"]_vars

\* C6 witness: an item whose page held no patent number has been handled.
C6_Witness ==
    /\ last.event = "no_number"
    /\ pc = "loop"
    /\ error_count >= 1
    /\ log[Len(log)] = last.url

\* C7: in a second run over the same list, a source whose output exists from
\* the first run is not fetched again.
C7_ResumeSkipsFetch ==
    \A i \in 1..Len(fetches) : fetches[i].url \notin prior

\* C8: the summary is written once per batch and only after every item has
\* finished: once it is written nothing is fetched, saved or tallied.
C8_SummaryAfterAllItems ==
    /\ [](/\ Len(summary) <= 1
          /\ Len(summary) = 1 =>
                /\ idx > Len(rows)
                /\ inFlight = 0
                /\ Len(fetches) = Len(NonBlank(rows, Len(rows))))
    /\ [][(Len(summary) = 1 /\ run' = run) =>
            UNCHANGED <<summary, fetches, inFlight, patents, saved, log,
                        success_count, error_count>>]_vars

\* C8 witness: the summary of a batch of several fetched items is written.
C8_Witness ==
    /\ Len(summary) = 1
    /\ Len(fetches) >= 2
    /\ pc = "done"

\* C9: the number of fetches in flight never exceeds the concurrency limit;
\* the loop is synchronous, so that limit is one request at a time.
C9_InFlightBounded == inFlight <= 1

\* C9 witness: a request is in flight after an earlier one has completed.
C9_Witness ==
    /\ inFlight = 1
    /\ Len(fetches) >= 2

\* C10: every HTTP fetch of the batch is made with the timeout the caller
\* passed to extract_patents_from_csv.
C10_TimeoutApplied ==
    \A i \in 1..Len(fetches) : fetches[i].timeout = timeout

\* C11: every claim extract_claims returns has a number that is a positive
\* integer, wherever the number came from (num attribute, element id, the
\* position in a list or a numeral at the head of the text).
C11_PositiveNumber ==
    phase = "done" => \A i \in 1..Len(claims) : claims[i].number >= 1

\* C12: extract_assignees and extract_inventors never return a name that is
\* the bare role label ("Assignee" / "Inventor").
C12_NoBareLabel ==
    pphase = "done" => \A i \in 1..Len(names) : names[i] # Str("", "LABEL")

\* The place of the first name of the gathered list that cleans to n.
FirstPlace(n) ==
    CHOOSE k \in 1..Len(collected) :
        /\ Str("", collected[k].base) = n
        /\ \A j \in 1..(k - 1) : Str("", collected[j].base) # n

\* C13: the list returned holds no two equal names, names that become equal
\* once the "Current/Original <Role>:" label is stripped included, and keeps
\* the names in the order of their first appearance.
C13_NoDuplicateNames ==
    pphase = "done" =>
        /\ \A i, j \in 1..Len(names) : i # j => names[i] # names[j]
        /\ \A i \in 1..Len(names) :
              \E k \in 1..Len(collected) : Str("", collected[k].base) = names[i]
        /\ \A i, j \in 1..Len(names) : i < j => FirstPlace(names[i]) < FirstPlace(names[j])

\* C13 witness: "Current <Role>: Acme" and "Acme" were both gathered and one
\* "Acme" is returned.
C13_Witness ==
    /\ pphase = "done"
    /\ InList(Str("Current", "Acme"), collected)
    /\ InList(Str("", "Acme"), collected)
    /\ names = <<Str("", "Acme")>>

\* The values of a record's fields, the identity of its list objects left out.
FieldsOf(r) ==
    [r EXCEPT !.inventors = r.inventors.items, !.assignees = r.assignees.items,
              !.claims = r.claims.items]
ListObjects(r) == {r.inventors.obj, r.assignees.obj, r.claims.obj}

HasItemprop(d, key) == \E i \in 1..Len(Elements(d)) : Elements(d)[i].itemprop = key

C16_UnsupportedIsValueError ==
    (written # NoSave /\ written.format \notin {"yaml", "json", "text", "sqlite"}) =>
        written.outcome = "ValueError" /\ ~written.file

\* C17: with output_format "sqlite", an item whose fetch succeeds and whose
\* page yields a patent number (the disk being in order) is saved and counted
\* as succeeded: it is the last of the list returned, its output exists, and
\* it has no error line.
C17_SqliteItemSucceeds ==
    (output_format = "sqlite" /\ last.event = "page") =>
        /\ Len(patents) >= 1
        /\ patents[Len(patents)] = last.url
        /\ last.url \in saved
        /\ (Len(log) >= 1 => log[Len(log)] # last.url)

\* C18: for a file whose output did not exist, process_file_with_retry calls
\* generate at most max_retries times, returns True exactly when its latest
\* attempt succeeded and False when none did, whatever integer max_retries
\* is, and no exception leaves it.
C18_RetryContract ==
    /\ attempts <= (IF max_retries > 0 THEN max_retries ELSE 0)
    /\ rpc # "raised"
    /\ (rpc = "returned" /\ (attempts > 0 \/ ~text_files[fidx])) =>
          \/ success = "True" /\ outcome = "ok"
          \/ success = "False" /\ outcome # "ok"

\* The claims the methods left, the claim 1 of the recovery taken off.
FromMethods == IF recovered THEN SubSeq(raw, 1, Len(raw) - 1) ELSE raw

\* C19: the claims of the result, the recovery's claim 1 apart, are those of
\* one method: the first of div.claim blocks, list items, <claim> elements
\* and plain text that yields any claim, every earlier one having yielded
\* none.
C19_OneMethod ==
    phase = "done" =>
        \/ Method1(section) # <<>> /\ FromMethods = Method1(section)
        \/ /\ Method1(section) = <<>>
           /\ Method2(section) # <<>> /\ FromMethods = Method2(section)
        \/ /\ Method1(section) = <<>> /\ Method2(section) = <<>>
           /\ Method3(section) # <<>> /\ FromMethods = Method3(section)
        \/ /\ Method1(section) = <<>> /\ Method2(section) = <<>>
           /\ Method3(section) = <<>> /\ FromMethods = Method4(section)

\* C19 witness: the blocks yielded the claims although the <claim> elements
\* and the plain text of the same section would have yielded some too.
C19_Witness ==
    /\ phase = "done"
    /\ method = 1
    /\ Method3(section) # <<>>
    /\ Method4(section) # <<>>
    /\ raw = Method1(section)

\* The numbers below n that the claim-refs of block d resolve to.
ResolvingRefs(d, n) ==
    {m \in Nums : /\ m < n
                  /\ \E j \in 1..Len(d.refs) :
                        /\ d.refs[j] # NoId
                        /\ ParseInt(ClaimNumPattern(d.refs[j])) = Some(m)}

\* The priority of the resolvers for block d, numbered n, with result dep.
ResolverPriority(d, n, dep) ==
    LET byRef == ResolvingRefs(d, n)
        p == FirstPhrase(StripPrefix(d.text, n))
        byText == IsSet(p) /\ Val(p) < n
    IN /\ byRef # {} => (IsSet(dep) /\ Val(dep) \in byRef)
       /\ (byRef = {} /\ byText) => dep = p
       /\ (byRef = {} /\ ~byText /\ ~d.depParent) => dep = None

\* C20: for a div.claim block (the only one of its number), a claim-ref that
\* resolves to a smaller number gives dependent_on, whatever the text says;
\* without one, the reference phrase of the text with a smaller number gives
\* it; with neither, and the block not marked dependent, it is unset.
C20_ResolverPriority ==
    (phase = "done" /\ method = 1) =>
        \A i \in 1..Len(section), k \in 1..Len(claims) :
            LET d == section[i]
                n == ParseInt(DivNumStr(d))
            IN (/\ d.kind = "div" /\ ~d.nested /\ IsSet(n)
                /\ NonEmpty(StripPrefix(d.text, Val(n)))
                /\ \A j \in 1..Len(section) :
                      (j # i /\ section[j].kind = "div") =>
                          ParseInt(DivNumStr(section[j])) # n
                /\ claims[k].number = Val(n))
               => ResolverPriority(d, Val(n), claims[k].dependent_on)

\* C21: the dependency of a claim does not depend on the method that yielded
\* it: for a section of one element (without a depends attribute) that
\* yields one claim, dependent_on is what the inference on a div.claim block
\* gives for the same number, text, claim-refs and dependent marking.
C21_SameForEveryMethod ==
    (phase = "done" /\ Len(section) = 1 /\ Len(claims) = 1
        /\ section[1].depends = NoStr) =>
        claims[1].dependent_on =
            DivDependency(section[1], claims[1].text, claims[1].number)

\* What strategy k finds in the page on its own (the fifth, the div lookup,
\* exists for assignees only).
StrategyNames(k) ==
    IF k = 1 THEN TaggedNames(pdoc, <<>>)
    ELSE IF k = 2 THEN SectionNames(pdoc, <<>>)
    ELSE IF k = 3 THEN PlainNames(pdoc, "dtdd", <<>>)
    ELSE IF k = 4 THEN PlainNames(pdoc, "row", <<>>)
    ELSE IF role = "Assignee" THEN DivNames(pdoc, <<>>) ELSE <<>>

\* C22: the names returned all come from one strategy, the first in the
\* order (tagged elements, named section, dt/dd pairs, table rows, and for
\* assignees the div lookup) that finds a name; if none finds any, no name
\* is returned.
C22_ShortCircuit ==
    pphase = "done" =>
        \/ /\ \A k \in 1..5 : StrategyNames(k) = <<>>
           /\ names = <<>>
        \/ \E k \in 1..5 :
              /\ StrategyNames(k) # <<>>
              /\ \A j \in 1..(k - 1) : StrategyNames(j) = <<>>
              /\ \A i \in 1..Len(names) :
                    \E j \in 1..Len(StrategyNames(k)) :
                        names[i] = StripLabel(StrategyNames(k)[j])
              /\ collected = StrategyNames(k)

\* C22 witness: the tagged elements gave the names although the dt/dd pairs
\* of the same page hold another name.
C22_Witness ==
    /\ pphase = "done"
    /\ strategy = 1
    /\ names = <<Str("", "Acme")>>
    /\ PlainNames(pdoc, "dtdd", <<>>) = <<Str("", "Bolt")>>

\* C23: when the named section is the strategy that runs, a child whose text
\* is a real name is kept even if the name holds a label word ("Original
\* Equipment Co"); only the children that are nothing but a label are left
\* out.
C23_RealNamesKept ==
    (pphase = "done" /\ TaggedNames(pdoc, <<>>) = <<>>) =>
        \A i \in 1..Len(pdoc) :
            (pdoc[i].where = "section" /\ pdoc[i].text.base \notin {"", "LABEL"}) =>
                InList(StripLabel(pdoc[i].text), names)

\* Element i of the section is a div.claim block that yields a claim, the only
\* block of its number, and claim k of the result has that number.
OnlyBlock(i, k) ==
    LET d == section[i]
        n == ParseInt(DivNumStr(d))
    IN /\ d.kind = "div" /\ ~d.nested /\ IsSet(n)
       /\ NonEmpty(StripPrefix(d.text, Val(n)))
       /\ \A j \in 1..Len(section) :
             (j # i /\ section[j].kind = "div") => ParseInt(DivNumStr(section[j])) # n
       /\ claims[k].number = Val(n)

\* The structural default for block d, numbered n, with result dep.
StructuralDefault(d, n, dep) ==
    LET byRef == ResolvingRefs(d, n)
        p == FirstPhrase(StripPrefix(d.text, n))
        byText == IsSet(p) /\ Val(p) < n
    IN /\ (byRef = {} /\ ~byText /\ d.depParent /\ n > 1) => dep = Some(n - 1)
       /\ (byRef = {} /\ ~byText /\ d.depParent /\ n = 1) => dep = None
       /\ ~d.depParent =>
             \/ dep = None
             \/ Val(dep) \in byRef
             \/ byText /\ dep = p

\* C24: a div.claim block under a parent marked dependent, for which neither
\* a claim-ref nor the text resolved a smaller number, gets number - 1 when
\* its number is above 1 and stays unset when it is 1; a block that is not
\* marked gets its dependency from a claim-ref or the text, or none.
C24_StructuralDefault ==
    (phase = "done" /\ method = 1) =>
        \A i \in 1..Len(section), k \in 1..Len(claims) :
            OnlyBlock(i, k) =>
                StructuralDefault(section[i], claims[k].number, claims[k].dependent_on)

\* C24 witness: block 2, marked dependent, with no claim-ref and no reference
\* phrase, came out depending on claim 1.
C24_Witness ==
    /\ phase = "done"
    /\ method = 1
    /\ Len(section) = 1
    /\ section[1].depParent /\ section[1].refs = <<>> /\ section[1].text.phrases = <<>>
    /\ Len(claims) = 1
    /\ claims[1].number = 2
    /\ claims[1].dependent_on = Some(1)

\* C25: for a <claim> element, a depends attribute that parses as an integer
\* is the dependency whatever the text says; the reference phrase of the text
\* counts only when the attribute is absent or does not parse.
C25_DependsAuthoritative ==
    (phase = "done" /\ method = 3 /\ Len(section) = 1 /\ Len(claims) = 1) =>
        LET attr == ParseInt(section[1].depends)
            p == FirstPhrase(section[1].text)
        IN IF IsSet(attr) THEN claims[1].dependent_on = attr
           ELSE claims[1].dependent_on =
                   (IF IsSet(p) /\ Val(p) < claims[1].number THEN p ELSE None)

\* The claims numbered 1 in a list.
ClaimsOne(cs) == {i \in 1..Len(cs) : cs[i].number = 1}

\* C26: when the methods left a non-empty list without a claim 1 whose first
\* number is above 1, and the section holds a div whose id carries a
\* claim-one fragment, a claim numbered 1 with dependent_on unset is appended;
\* the result then holds one claim numbered 1; nothing is appended when the
\* methods left a claim 1 or left nothing.
C26_Recovery ==
    phase = "done" =>
        LET pre == Methods(section)
            open == pre # <<>> /\ ClaimsOne(pre) = {} /\ pre[1].number > 1
            found == \E i \in 1..Len(section) :
                        section[i].kind = "div" /\ IsClaimOneId(section[i].id)
        IN /\ (open /\ found) =>
                 /\ Len(raw) = Len(pre) + 1
                 /\ raw[Len(raw)].number = 1
                 /\ raw[Len(raw)].dependent_on = None
                 /\ Cardinality(ClaimsOne(claims)) = 1
           /\ (pre = <<>> \/ ClaimsOne(pre) # {}) => raw = pre

\* C28: every claim extract_claims returns has text: no method and not the
\* claim-1 recovery adds a claim whose text is empty.
C28_NonEmptyText ==
    phase = "done" => \A i \in 1..Len(claims) : NonEmpty(claims[i].text)

\* C27: an element whose number int() rejects is dropped and the rest of
\* the section is still processed: methods 1 and 3 return what they return
\* for the section without the malformed elements, and every number returned
\* is one that was parsed from an element, never a default.
Parses(e) ==
    CASE e.kind = "div" -> IsSet(ParseInt(DivNumStr(e)))
      [] e.kind = "claim" -> IsSet(ParseInt(ElemNumStr(e)))
      [] OTHER -> TRUE
ParsedNumbers(sec, kind) ==
    {Val(ParseInt(IF kind = "div" THEN DivNumStr(sec[i]) ELSE ElemNumStr(sec[i]))) :
        i \in {j \in 1..Len(sec) : sec[j].kind = kind /\ Parses(sec[j])}}
C27_MalformedDropped ==
    (phase = "done" /\ method \in {1, 3}) =>
        LET pre == Methods(section)
            kind == IF method = 1 THEN "div" ELSE "claim"
        IN /\ pre = Methods(SelectSeq(section, Parses))
           /\ \A i \in 1..Len(pre) : pre[i].number \in ParsedNumbers(section, kind)
C27_Witness ==
    /\ phase = "done"
    /\ Len(section) = 3
    /\ Parses(section[1]) /\ ~Parses(section[2]) /\ Parses(section[3])
    /\ Len(claims) = 2
    /\ claims[1].number = 1 /\ claims[2].number = 2

\* C29: the textual dependency comes from the first reference phrase only:
\* of a claim with no claim-ref, no depends attribute and no marked parent,
\* dependent_on is the first phrase's number when that is smaller than the
\* claim's own, and unset otherwise, whatever a later phrase names.
C29_FirstPhraseOnly ==
    (phase = "done" /\ Len(section) = 1 /\ Len(claims) = 1
        /\ section[1].refs = <<>> /\ ~section[1].depParent
        /\ section[1].depends = NoStr) =>
            LET ph == section[1].text.phrases
                n == claims[1].number
            IN claims[1].dependent_on =
                   IF ph # <<>> /\ ph[1] < n THEN Some(ph[1]) ELSE None
C29_Witness ==
    /\ phase = "done" /\ Len(section) = 1 /\ Len(claims) = 1
    /\ section[1].kind = "li"
    /\ section[1].text.phrases = <<2, 1>>
    /\ claims[1].number = 2
    /\ claims[1].dependent_on = None

\* C30: of a block with claim-ref children, dependent_on is the target of
\* the last child that resolves to a number smaller than the block's own;
\* children that resolve to an equal or larger number are ignored.
RefTarget(r) == IF r = NoId THEN None ELSE ParseInt(ClaimNumPattern(r))
C30_LastRefWins ==
    (phase = "done" /\ Len(section) = 1 /\ section[1].kind = "div"
        /\ Len(claims) = 1) =>
            LET refs == section[1].refs
                n == claims[1].number
                hits == {j \in 1..Len(refs) :
                            IsSet(RefTarget(refs[j])) /\ Val(RefTarget(refs[j])) < n}
                final == CHOOSE j \in hits : \A k \in hits : k <= j
            IN hits # {} => claims[1].dependent_on = RefTarget(refs[final])

====
